---------------------------- MODULE Spec2Model ----------------------------
(***************************************************************************)
(* Model of mining.DefaultWorker.Mine (src/mining/worker.go) and of the    *)
(* proof task it launches (createProof).  Two Mine calls run concurrently  *)
(* on the same worker, each with its own context and output channel.       *)
(* Every collaborator (state accessor, CreateChallengeSeed, the proof work *)
(* function, the signer, IsWinningTicket, Generate) is an input whose      *)
(* result is chosen nondeterministically when it is invoked.               *)
(***************************************************************************)
EXTENDS Integers, Sequences, FiniteSets, TLC

(* ------------------------------ bounds -------------------------------- *)

\* largest nullBlkCount argument handed to Mine
MaxNullBlkCount == 1

\* The concurrent Mine calls under observation.
Calls == {"m1", "m2"}

\* Base tipsets handed to Mine: the empty tipset and two non-empty ones.
TipSets == {{}, {"b1"}, {"b1", "b2"}}

NullBlkCounts == 0..MaxNullBlkCount

(* ------------------------------ values -------------------------------- *)

\* Go's nil error.
Nil == "nil"

\* A nil *types.Block; a non-nil pointer to block b is <<b>>.
NilBlock == <<>>

\* The zero value of a local that has not been assigned yet.
Unset == <<>>

\* errors.New("bad input tipset with no blocks sent to Mine()")
ErrEmptyTipSet == "bad input tipset with no blocks sent to Mine()"

\* The error each collaborator fails with.
ErrGetStateTree == "getStateTree error"
ErrChallengeSeed == "CreateChallengeSeed error"
ErrIsWinningTicket == "IsWinningTicket error"
ErrGenerate == "Generate error"
ErrSignBytes == "SignBytes error"

\* The worker's configured miner address (DefaultWorker.minerAddr).
minerAddr == "minerAddr"

\* uint64(nullBlkCount): the conversion keeps every non-negative int, and
\* NullBlkCounts holds no other.
Uint64(n) == n

\* Output{NewBlock: b, Err: e}
NewOutput(b, e) == [NewBlock |-> b, Err |-> e]

\* The seed consensus.CreateChallengeSeed returns on success: it is
\* determined by the arguments of the call of line 169.
ChallengeSeed(b, n) == [tipset |-> b, nullBlkCount |-> Uint64(n)]

\* copy(proof[:], prChRead[:]): the seed fills the leading bytes of the
\* zero-valued proof, the remaining bytes stay zero.
CopyProof(prChRead) == [lead |-> prChRead, rest |-> "zero"]

\* The signature signer.SignBytes returns on success: it is determined by
\* the arguments of the call of line 231.
Signature(data, addr) == [signed |-> data, by |-> addr]

\* The block w.Generate returns on success: it is determined by the
\* arguments of the call of line 201.
GeneratedBlock(b, t, p, n) ==
    [base |-> b, ticket |-> t, proof |-> p, nullBlkCount |-> n]

(* ------------------------------ state --------------------------------- *)

VARIABLES
    pc,            \* position of each Mine call
    base,          \* argument base
    nullBlkCount,  \* argument nullBlkCount
    ctxDone,       \* the call's context has been cancelled
    ctxAtEntry,    \* value of ctxDone when Mine was entered
    err,           \* local err
    challenge,     \* local challenge
    task,          \* state of the goroutine started by createProof
    prChRead,      \* value received from prCh
    proof,         \* local proof
    ticket,        \* local ticket
    weHaveAWinner, \* local weHaveAWinner
    next,          \* local next
    outCh,         \* Outputs sent on (and accepted from) outCh, in order
    retVal,        \* value returned by Mine
    retLine,       \* source line of the return statement taken
    trace,         \* collaborators invoked by the call, in order
    rcvReady       \* a receiver is waiting on the call's outCh

vars == <<pc, base, nullBlkCount, ctxDone, ctxAtEntry, err, challenge, task,
          prChRead, proof, ticket, weHaveAWinner, next, outCh, retVal,
          retLine, trace, rcvReady>>


Init ==
    /\ pc = [c \in Calls |-> "idle"]
    /\ base = [c \in Calls |-> {}]
    /\ nullBlkCount = [c \in Calls |-> 0]
    /\ ctxDone = [c \in Calls |-> FALSE]
    /\ ctxAtEntry = [c \in Calls |-> FALSE]
    /\ err = [c \in Calls |-> Nil]
    /\ challenge = [c \in Calls |-> Unset]
    /\ task = [c \in Calls |-> "none"]
    /\ prChRead = [c \in Calls |-> Unset]
    /\ proof = [c \in Calls |-> Unset]
    /\ ticket = [c \in Calls |-> Unset]
    /\ weHaveAWinner = [c \in Calls |-> FALSE]
    /\ next = [c \in Calls |-> NilBlock]
    /\ outCh = [c \in Calls |-> <<>>]
    /\ retVal = [c \in Calls |-> FALSE]
    /\ retLine = [c \in Calls |-> 0]
    /\ trace = [c \in Calls |-> <<>>]
    /\ rcvReady = [c \in Calls |-> FALSE]

\* The state of the other parts of the repository modelled below; Mine does
\* not touch it.
VARIABLES
    tk,            \* a call of CreateTicket: arguments, position, result
    store,         \* the chain Store: its TipSetAndState entries
    storeHead,     \* the chain Store: its head tipset
    lastCall,      \* the last call of a chain helper: arguments and result
    ad             \* a use of the address encoding: arguments, position,
                   \* results

auxVars == <<tk, store, storeHead, lastCall, ad>>

(* ----------------------------- helpers -------------------------------- *)

\* `return v` at source line l.
Return(c, v, l) ==
    /\ pc' = [pc EXCEPT ![c] = "done"]
    /\ retVal' = [retVal EXCEPT ![c] = v]
    /\ retLine' = [retLine EXCEPT ![c] = l]

\* `outCh <- o; return v` at source line l: the call blocks in the send
\* until a receiver of the output channel takes the value, then Mine
\* returns.
SendAndReturn(c, o, v, l) ==
    /\ rcvReady[c]
    /\ rcvReady' = [rcvReady EXCEPT ![c] = FALSE]
    /\ outCh' = [outCh EXCEPT ![c] = Append(@, o)]
    /\ Return(c, v, l)

\* line 156: w.getStateTree(ctx, base)
GetStateTreeArgs(c) == <<base[c]>>

\* line 169: consensus.CreateChallengeSeed(base, uint64(nullBlkCount))
CreateChallengeSeedArgs(c) == <<base[c], Uint64(nullBlkCount[c])>>

\* line 174: createProof(challenge, w.createPoSTFunc)
CreateProofArgs(c) == <<challenge[c]>>

\* lines 188 and 228-231: signer.SignBytes(proof[:], w.minerAddr)
SignBytesArgs(c) == <<proof[c], minerAddr>>

\* line 192: consensus.IsWinningTicket(..., st, ticket, w.minerAddr)
IsWinningTicketArgs(c) == <<ticket[c], minerAddr>>

\* Variant of GenerateArgs: the null block count is not passed on.
GenerateArgsNoNulls(c) == <<base[c], ticket[c], proof[c], Uint64(0)>>

\* line 201: w.Generate(ctx, base, ticket, proof, uint64(nullBlkCount))
GenerateArgs(c) == <<base[c], ticket[c], proof[c], Uint64(nullBlkCount[c])>>

\* the arguments the call hands to collaborator f
InvokeArgs(c, f) ==
    CASE f = "getStateTree" -> GetStateTreeArgs(c)
      [] f = "CreateChallengeSeed" -> CreateChallengeSeedArgs(c)
      [] f = "createProof" -> CreateProofArgs(c)
      [] f = "SignBytes" -> SignBytesArgs(c)
      [] f = "IsWinningTicket" -> IsWinningTicketArgs(c)
      [] f = "Generate" -> GenerateArgs(c)

\* the call invokes collaborator f, which returns the error e (Nil: none)
Invoke(c, f, e) ==
    trace' = [trace EXCEPT
                ![c] = Append(@, [op |-> f, args |-> InvokeArgs(c, f),
                                  err |-> e])]

\* Variant of ProofTaskValue: the proof task puts a proof computed from the
\* seed on prCh instead of the seed itself.
ProofTaskValueComputed(seed) == [post |-> seed]

\* The value the proof task puts on prCh: the challenge seed, passed through.
ProofTaskValue(seed) == seed

(* ------------------------- the caller and ctx ------------------------- *)

\* The scheduler calls w.Mine(ctx, b, n, outCh).
Call(c) ==
    /\ pc[c] = "idle"
    /\ \E b \in TipSets, n \in NullBlkCounts :
          /\ base' = [base EXCEPT ![c] = b]
          /\ nullBlkCount' = [nullBlkCount EXCEPT ![c] = n]
    /\ ctxAtEntry' = [ctxAtEntry EXCEPT ![c] = ctxDone[c]]
    /\ pc' = [pc EXCEPT ![c] = "L150"]
    /\ UNCHANGED <<ctxDone, err, challenge, task, prChRead, proof, ticket,
                   weHaveAWinner, next, outCh, retVal, retLine, trace,
                   rcvReady, auxVars>>

\* The owner of the context cancels it.  A Mine call parked in the select
\* of line 178 is woken on the ctx.Done() case.
Cancel(c) ==
    /\ ~ctxDone[c]
    /\ ctxDone' = [ctxDone EXCEPT ![c] = TRUE]
    /\ pc' = [pc EXCEPT ![c] = IF pc[c] = "parked" THEN "L180" ELSE @]
    /\ UNCHANGED <<base, nullBlkCount, ctxAtEntry, err, challenge, task,
                   prChRead, proof, ticket, weHaveAWinner, next, outCh,
                   retVal, retLine, trace, rcvReady, auxVars>>

\* The caller's side of outCh: a receiver starts waiting for the call's
\* Output.
ReceiverReady(c) ==
    /\ ~rcvReady[c]
    /\ rcvReady' = [rcvReady EXCEPT ![c] = TRUE]
    /\ UNCHANGED <<pc, base, nullBlkCount, ctxDone, ctxAtEntry, err,
                   challenge, task, prChRead, proof, ticket, weHaveAWinner,
                   next, outCh, retVal, retLine, trace, auxVars>>

(* ------------------------------- Mine --------------------------------- *)

\* Variant of CheckBase: the empty tipset is not rejected.
CheckBaseSkipped(c) ==
    /\ pc[c] = "L150"
    /\ pc' = [pc EXCEPT ![c] = "L156"]
    /\ UNCHANGED <<base, nullBlkCount, ctxDone, ctxAtEntry, err, challenge,
                   task, prChRead, proof, ticket, weHaveAWinner, next, outCh,
                   retVal, retLine, trace, rcvReady, auxVars>>

\* line 150: if len(base) == 0
CheckBase(c) ==
    /\ pc[c] = "L150"
    /\ pc' = [pc EXCEPT ![c] = IF Cardinality(base[c]) = 0 THEN "L152"
                                                            ELSE "L156"]
    /\ UNCHANGED <<base, nullBlkCount, ctxDone, ctxAtEntry, err, challenge,
                   task, prChRead, proof, ticket, weHaveAWinner, next, outCh,
                   retVal, retLine, trace, rcvReady, auxVars>>

\* Variant of SendEmptyTipSetErr: the return after the send is missing and
\* the call falls through to the state accessor.
SendEmptyTipSetErrNoReturn(c) ==
    /\ pc[c] = "L152"
    /\ rcvReady[c]
    /\ rcvReady' = [rcvReady EXCEPT ![c] = FALSE]
    /\ outCh' = [outCh EXCEPT
                   ![c] = Append(@, NewOutput(NilBlock, ErrEmptyTipSet))]
    /\ pc' = [pc EXCEPT ![c] = "L156"]
    /\ UNCHANGED <<base, nullBlkCount, ctxDone, ctxAtEntry, err, challenge,
                   task, prChRead, proof, ticket, weHaveAWinner, next,
                   retVal, retLine, trace, auxVars>>

\* lines 152-153: outCh <- Output{Err: errors.New(...)}; return false
SendEmptyTipSetErr(c) ==
    /\ pc[c] = "L152"
    /\ SendAndReturn(c, NewOutput(NilBlock, ErrEmptyTipSet), FALSE, 153)
    /\ UNCHANGED <<base, nullBlkCount, ctxDone, ctxAtEntry, err, challenge,
                   task, prChRead, proof, ticket, weHaveAWinner, next, trace,
                   auxVars>>

\* lines 156-157: st, err := w.getStateTree(ctx, base)
GetStateTree(c) ==
    /\ pc[c] = "L156"
    /\ \E e \in {Nil, ErrGetStateTree} :
          /\ Invoke(c, "getStateTree", e)
          /\ err' = [err EXCEPT ![c] = e]
          /\ pc' = [pc EXCEPT ![c] = IF e # Nil THEN "L159" ELSE "L164"]
    /\ UNCHANGED <<base, nullBlkCount, ctxDone, ctxAtEntry, challenge, task,
                   prChRead, proof, ticket, weHaveAWinner, next, outCh,
                   retVal, retLine, rcvReady, auxVars>>

\* Variant of SendStateTreeErr: the cancellation checkpoint comes before
\* the report of the state accessor's error.
SendStateTreeErrAfterCtx(c) ==
    /\ pc[c] = "L159"
    /\ IF ctxDone[c]
         THEN Return(c, FALSE, 166) /\ UNCHANGED <<outCh, rcvReady>>
         ELSE SendAndReturn(c, NewOutput(NilBlock, err[c]), FALSE, 160)
    /\ UNCHANGED <<base, nullBlkCount, ctxDone, ctxAtEntry, err, challenge,
                   task, prChRead, proof, ticket, weHaveAWinner, next, trace,
                   auxVars>>

\* lines 159-160: outCh <- Output{Err: err}; return false
SendStateTreeErr(c) ==
    /\ pc[c] = "L159"
    /\ SendAndReturn(c, NewOutput(NilBlock, err[c]), FALSE, 160)
    /\ UNCHANGED <<base, nullBlkCount, ctxDone, ctxAtEntry, err, challenge,
                   task, prChRead, proof, ticket, weHaveAWinner, next, trace,
                   auxVars>>

\* Variant of CheckCtx: the checkpoint receives from ctx.Done() instead of
\* polling ctx.Err(), so it waits for the cancellation.
CheckCtxWaits(c) ==
    /\ pc[c] = "L164"
    /\ ctxDone[c]
    /\ Return(c, FALSE, 166)
    /\ UNCHANGED <<base, nullBlkCount, ctxDone, ctxAtEntry, err, challenge,
                   task, prChRead, proof, ticket, weHaveAWinner, next, outCh,
                   trace, rcvReady, auxVars>>

\* Variant of CheckCtx: the cancellation checkpoint is missing.
CheckCtxSkipped(c) ==
    /\ pc[c] = "L164"
    /\ pc' = [pc EXCEPT ![c] = "L169"]
    /\ UNCHANGED <<base, nullBlkCount, ctxDone, ctxAtEntry, err, challenge,
                   task, prChRead, proof, ticket, weHaveAWinner, next, outCh,
                   retVal, retLine, trace, rcvReady, auxVars>>

\* lines 164-167: if ctx.Err() != nil { return false }
CheckCtx(c) ==
    /\ pc[c] = "L164"
    /\ IF ctxDone[c]
         THEN Return(c, FALSE, 166)
         ELSE /\ pc' = [pc EXCEPT ![c] = "L169"]
              /\ UNCHANGED <<retVal, retLine>>
    /\ UNCHANGED <<base, nullBlkCount, ctxDone, ctxAtEntry, err, challenge,
                   task, prChRead, proof, ticket, weHaveAWinner, next, outCh,
                   trace, rcvReady, auxVars>>

\* lines 169-170: challenge, err := consensus.CreateChallengeSeed(base, uint64(nullBlkCount))
CreateChallengeSeed(c) ==
    /\ pc[c] = "L169"
    /\ \/ /\ Invoke(c, "CreateChallengeSeed", Nil)
          /\ err' = [err EXCEPT ![c] = Nil]
          /\ challenge' = [challenge EXCEPT
                             ![c] = ChallengeSeed(base[c], nullBlkCount[c])]
          /\ pc' = [pc EXCEPT ![c] = "L174"]
       \/ /\ Invoke(c, "CreateChallengeSeed", ErrChallengeSeed)
          /\ err' = [err EXCEPT ![c] = ErrChallengeSeed]
          /\ UNCHANGED challenge
          /\ pc' = [pc EXCEPT ![c] = "L171"]
    /\ UNCHANGED <<base, nullBlkCount, ctxDone, ctxAtEntry, task, prChRead,
                   proof, ticket, weHaveAWinner, next, outCh, retVal,
                   retLine, rcvReady, auxVars>>

\* lines 171-172: outCh <- Output{Err: err}; return false
SendChallengeSeedErr(c) ==
    /\ pc[c] = "L171"
    /\ SendAndReturn(c, NewOutput(NilBlock, err[c]), FALSE, 172)
    /\ UNCHANGED <<base, nullBlkCount, ctxDone, ctxAtEntry, err, challenge,
                   task, prChRead, proof, ticket, weHaveAWinner, next, trace,
                   auxVars>>

\* line 174: prCh := createProof(challenge, w.createPoSTFunc)
\* createProof makes the unbuffered channel and starts the goroutine.
CreateProof(c) ==
    /\ pc[c] = "L174"
    /\ Invoke(c, "createProof", Nil)
    /\ task' = [task EXCEPT ![c] = "working"]
    /\ pc' = [pc EXCEPT ![c] = "L178"]
    /\ UNCHANGED <<base, nullBlkCount, ctxDone, ctxAtEntry, err, challenge,
                   prChRead, proof, ticket, weHaveAWinner, next, outCh,
                   retVal, retLine, rcvReady, auxVars>>

\* Variant of Select: the proof channel is a field of the worker shared by
\* all calls, so the select receives from whichever proof task is sending.
SelectSharedPrCh(c) ==
    /\ pc[c] = "L178"
    /\ \/ /\ ctxDone[c]
          /\ pc' = [pc EXCEPT ![c] = "L180"]
          /\ UNCHANGED <<task, prChRead>>
       \/ \E d \in Calls :
             /\ task[d] = "sending"
             /\ prChRead' = [prChRead EXCEPT
                                ![c] = ProofTaskValue(challenge[d])]
             /\ task' = [task EXCEPT ![d] = "done"]
             /\ pc' = [pc EXCEPT ![c] = "L183"]
       \/ /\ ~ctxDone[c]
          /\ \A d \in Calls : task[d] # "sending"
          /\ pc' = [pc EXCEPT ![c] = "parked"]
          /\ UNCHANGED <<task, prChRead>>
    /\ UNCHANGED <<base, nullBlkCount, ctxDone, ctxAtEntry, err, challenge,
                   proof, ticket, weHaveAWinner, next, outCh, retVal,
                   retLine, trace, rcvReady, auxVars>>

\* Variant of Select: the select has no ctx.Done() case and only receives
\* from prCh.
SelectProofOnly(c) ==
    /\ pc[c] = "L178"
    /\ \/ /\ task[c] = "sending"
          /\ prChRead' = [prChRead EXCEPT ![c] = ProofTaskValue(challenge[c])]
          /\ task' = [task EXCEPT ![c] = "done"]
          /\ pc' = [pc EXCEPT ![c] = "L183"]
       \/ /\ task[c] # "sending"
          /\ pc' = [pc EXCEPT ![c] = "parked"]
          /\ UNCHANGED <<task, prChRead>>
    /\ UNCHANGED <<base, nullBlkCount, ctxDone, ctxAtEntry, err, challenge,
                   proof, ticket, weHaveAWinner, next, outCh, retVal,
                   retLine, trace, rcvReady, auxVars>>

\* lines 178-182: select { case <-ctx.Done(): ... case prChRead, more := <-prCh: ... }
\* A case is ready when the context is cancelled, respectively when the
\* proof task is blocked in its send on prCh.  Among the ready cases the
\* runtime picks one at random; with no case ready the call parks until
\* the first of the two events.
Select(c) ==
    /\ pc[c] = "L178"
    /\ \/ /\ ctxDone[c]
          /\ pc' = [pc EXCEPT ![c] = "L180"]
          /\ UNCHANGED <<task, prChRead>>
       \/ /\ task[c] = "sending"
          /\ prChRead' = [prChRead EXCEPT ![c] = ProofTaskValue(challenge[c])]
          /\ task' = [task EXCEPT ![c] = "done"]
          /\ pc' = [pc EXCEPT ![c] = "L183"]
       \/ /\ ~ctxDone[c]
          /\ task[c] # "sending"
          /\ pc' = [pc EXCEPT ![c] = "parked"]
          /\ UNCHANGED <<task, prChRead>>
    /\ UNCHANGED <<base, nullBlkCount, ctxDone, ctxAtEntry, err, challenge,
                   proof, ticket, weHaveAWinner, next, outCh, retVal,
                   retLine, trace, rcvReady, auxVars>>

\* lines 179-181: case <-ctx.Done(): return false
SelectCancelled(c) ==
    /\ pc[c] = "L180"
    /\ Return(c, FALSE, 181)
    /\ UNCHANGED <<base, nullBlkCount, ctxDone, ctxAtEntry, err, challenge,
                   task, prChRead, proof, ticket, weHaveAWinner, next, outCh,
                   trace, rcvReady, auxVars>>

\* lines 218-219, the goroutine of createProof: createPoST() returns and the
\* goroutine sends the challenge seed on the unbuffered prCh.  The send is
\* taken at once by a Mine call parked in the select; otherwise the
\* goroutine blocks in the send until the select receives from prCh.
ProofTaskSend(c) ==
    /\ task[c] = "working"
    /\ IF pc[c] = "parked"
         THEN /\ prChRead' = [prChRead EXCEPT
                                 ![c] = ProofTaskValue(challenge[c])]
              /\ task' = [task EXCEPT ![c] = "done"]
              /\ pc' = [pc EXCEPT ![c] = "L183"]
         ELSE /\ task' = [task EXCEPT ![c] = "sending"]
              /\ UNCHANGED <<prChRead, pc>>
    /\ UNCHANGED <<base, nullBlkCount, ctxDone, ctxAtEntry, err, challenge,
                   proof, ticket, weHaveAWinner, next, outCh, retVal,
                   retLine, trace, rcvReady, auxVars>>

\* prCh is never closed (createProof has no close), so more is always true.
more == TRUE

\* lines 182-187: case prChRead, more := <-prCh: if !more { return false };
\* copy(proof[:], prChRead[:])
ReceiveProof(c) ==
    /\ pc[c] = "L183"
    /\ IF ~more
         THEN /\ Return(c, FALSE, 185)
              /\ UNCHANGED proof
         ELSE /\ proof' = [proof EXCEPT ![c] = CopyProof(prChRead[c])]
              /\ pc' = [pc EXCEPT ![c] = "L188"]
              /\ UNCHANGED <<retVal, retLine>>
    /\ UNCHANGED <<base, nullBlkCount, ctxDone, ctxAtEntry, err, challenge,
                   task, prChRead, ticket, weHaveAWinner, next, outCh,
                   trace, rcvReady, auxVars>>

\* Variant of CreateTicket: a signer error is handled like the other
\* collaborator errors, it is sent as an error Output and Mine returns false.
CreateTicketReportsErr(c) ==
    /\ pc[c] = "L188"
    /\ \/ /\ Invoke(c, "SignBytes", Nil)
          /\ ticket' = [ticket EXCEPT ![c] = Signature(proof[c], minerAddr)]
          /\ pc' = [pc EXCEPT ![c] = "L192"]
          /\ UNCHANGED err
       \/ /\ Invoke(c, "SignBytes", ErrSignBytes)
          /\ err' = [err EXCEPT ![c] = ErrSignBytes]
          /\ pc' = [pc EXCEPT ![c] = "L196"]
          /\ UNCHANGED ticket
    /\ UNCHANGED <<base, nullBlkCount, ctxDone, ctxAtEntry, challenge,
                   task, prChRead, proof, weHaveAWinner, next, outCh, retVal,
                   retLine, rcvReady, auxVars>>

\* line 188 and lines 227-237: ticket = CreateTicket(proof, w.minerAddr, w.signer)
\* CreateTicket signs the proof bytes and panics when the signer fails.
CreateTicket(c) ==
    /\ pc[c] = "L188"
    /\ \/ /\ Invoke(c, "SignBytes", Nil)
          /\ ticket' = [ticket EXCEPT ![c] = Signature(SignBytesArgs(c)[1],
                                                    SignBytesArgs(c)[2])]
          /\ pc' = [pc EXCEPT ![c] = "L192"]
       \/ /\ Invoke(c, "SignBytes", ErrSignBytes)
          /\ pc' = [pc EXCEPT ![c] = "panicked"]
          /\ UNCHANGED ticket
    /\ UNCHANGED <<base, nullBlkCount, ctxDone, ctxAtEntry, err, challenge,
                   task, prChRead, proof, weHaveAWinner, next, outCh, retVal,
                   retLine, rcvReady, auxVars>>

\* Variant of IsWinningTicket: weHaveAWinner is not tested and every call
\* whose win check did not fail goes on to Generate.
IsWinningTicketNoWinTest(c) ==
    /\ pc[c] = "L192"
    /\ \E w \in BOOLEAN, e \in {Nil, ErrIsWinningTicket} :
          /\ Invoke(c, "IsWinningTicket", e)
          /\ weHaveAWinner' = [weHaveAWinner EXCEPT ![c] = w]
          /\ err' = [err EXCEPT ![c] = e]
          /\ pc' = [pc EXCEPT ![c] = IF e # Nil THEN "L196" ELSE "L201"]
    /\ UNCHANGED <<base, nullBlkCount, ctxDone, ctxAtEntry, challenge, task,
                   prChRead, proof, ticket, next, outCh, retVal, retLine,
                   rcvReady, auxVars>>

\* Variant of IsWinningTicket: weHaveAWinner is tested before err.
IsWinningTicketWinFirst(c) ==
    /\ pc[c] = "L192"
    /\ \E w \in BOOLEAN, e \in {Nil, ErrIsWinningTicket} :
          /\ Invoke(c, "IsWinningTicket", e)
          /\ weHaveAWinner' = [weHaveAWinner EXCEPT ![c] = w]
          /\ err' = [err EXCEPT ![c] = e]
          /\ IF w
               THEN /\ pc' = [pc EXCEPT ![c] = "L201"]
                    /\ UNCHANGED <<retVal, retLine>>
               ELSE IF e # Nil
                      THEN /\ pc' = [pc EXCEPT ![c] = "L196"]
                           /\ UNCHANGED <<retVal, retLine>>
                      ELSE Return(c, FALSE, 210)
    /\ UNCHANGED <<base, nullBlkCount, ctxDone, ctxAtEntry, challenge, task,
                   prChRead, proof, ticket, next, outCh, rcvReady, auxVars>>

\* lines 192-200 and 210: weHaveAWinner, err := consensus.IsWinningTicket(...)
\* followed by the tests of err and of weHaveAWinner; a call that neither
\* failed nor won returns false at line 210.
IsWinningTicket(c) ==
    /\ pc[c] = "L192"
    /\ \E w \in BOOLEAN, e \in {Nil, ErrIsWinningTicket} :
          /\ Invoke(c, "IsWinningTicket", e)
          /\ weHaveAWinner' = [weHaveAWinner EXCEPT ![c] = w]
          /\ err' = [err EXCEPT ![c] = e]
          /\ IF e # Nil
               THEN /\ pc' = [pc EXCEPT ![c] = "L196"]
                    /\ UNCHANGED <<retVal, retLine>>
               ELSE IF w
                      THEN /\ pc' = [pc EXCEPT ![c] = "L201"]
                           /\ UNCHANGED <<retVal, retLine>>
                      ELSE Return(c, FALSE, 210)
    /\ UNCHANGED <<base, nullBlkCount, ctxDone, ctxAtEntry, challenge, task,
                   prChRead, proof, ticket, next, outCh, rcvReady, auxVars>>

\* Variant of SendWinCheckErr: the error is not reported.
SendWinCheckErrSilent(c) ==
    /\ pc[c] = "L196"
    /\ Return(c, FALSE, 197)
    /\ UNCHANGED <<base, nullBlkCount, ctxDone, ctxAtEntry, err, challenge,
                   task, prChRead, proof, ticket, weHaveAWinner, next, outCh,
                   trace, rcvReady, auxVars>>

\* lines 196-197: outCh <- Output{Err: err}; return false
SendWinCheckErr(c) ==
    /\ pc[c] = "L196"
    /\ SendAndReturn(c, NewOutput(NilBlock, err[c]), FALSE, 197)
    /\ UNCHANGED <<base, nullBlkCount, ctxDone, ctxAtEntry, err, challenge,
                   task, prChRead, proof, ticket, weHaveAWinner, next, trace,
                   auxVars>>

\* lines 201-205: next, err := w.Generate(ctx, base, ticket, proof, uint64(nullBlkCount))
\* On failure Generate returns no block.  Lines 203-205 only log.
Generate(c) ==
    /\ pc[c] = "L201"
    /\ \/ /\ Invoke(c, "Generate", Nil)
          /\ next' = [next EXCEPT
                        ![c] = <<GeneratedBlock(GenerateArgs(c)[1],
                                                GenerateArgs(c)[2],
                                                GenerateArgs(c)[3],
                                                GenerateArgs(c)[4])>>]
          /\ err' = [err EXCEPT ![c] = Nil]
       \/ /\ Invoke(c, "Generate", ErrGenerate)
          /\ next' = [next EXCEPT ![c] = NilBlock]
          /\ err' = [err EXCEPT ![c] = ErrGenerate]
    /\ pc' = [pc EXCEPT ![c] = "L206"]
    /\ UNCHANGED <<base, nullBlkCount, ctxDone, ctxAtEntry, challenge, task,
                   prChRead, proof, ticket, weHaveAWinner, outCh, retVal,
                   retLine, rcvReady, auxVars>>

\* Variant of SendGenerated: the context is consulted once more before the
\* send, and a cancelled call returns false without an Output.
SendGeneratedUnlessCancelled(c) ==
    /\ pc[c] = "L206"
    /\ IF ctxDone[c]
         THEN Return(c, FALSE, 207) /\ UNCHANGED <<outCh, rcvReady>>
         ELSE SendAndReturn(c, NewOutput(next[c], err[c]), TRUE, 207)
    /\ UNCHANGED <<base, nullBlkCount, ctxDone, ctxAtEntry, err, challenge,
                   task, prChRead, proof, ticket, weHaveAWinner, next, trace,
                   auxVars>>

\* Variant of SendGenerated: an assembly error is dropped instead of sent.
SendGeneratedDropErr(c) ==
    /\ pc[c] = "L206"
    /\ IF err[c] # Nil
         THEN Return(c, TRUE, 207) /\ UNCHANGED <<outCh, rcvReady>>
         ELSE SendAndReturn(c, NewOutput(next[c], err[c]), TRUE, 207)
    /\ UNCHANGED <<base, nullBlkCount, ctxDone, ctxAtEntry, err, challenge,
                   task, prChRead, proof, ticket, weHaveAWinner, next, trace,
                   auxVars>>

\* Variant of SendGenerated: the call returns whether a block was created.
SendGeneratedReturnCreated(c) ==
    /\ pc[c] = "L206"
    /\ SendAndReturn(c, NewOutput(next[c], err[c]), err[c] = Nil, 207)
    /\ UNCHANGED <<base, nullBlkCount, ctxDone, ctxAtEntry, err, challenge,
                   task, prChRead, proof, ticket, weHaveAWinner, next, trace,
                   auxVars>>

\* lines 206-207: outCh <- NewOutput(next, err); return true
SendGenerated(c) ==
    /\ pc[c] = "L206"
    /\ SendAndReturn(c, NewOutput(next[c], err[c]), TRUE, 207)
    /\ UNCHANGED <<base, nullBlkCount, ctxDone, ctxAtEntry, err, challenge,
                   task, prChRead, proof, ticket, weHaveAWinner, next, trace,
                   auxVars>>

(* --------------------------- specification ---------------------------- *)

Next ==
    \E c \in Calls :
       \/ Call(c)
       \/ Cancel(c)
       \/ ReceiverReady(c)
       \/ CheckBase(c)
       \/ SendEmptyTipSetErr(c)
       \/ GetStateTree(c)
       \/ SendStateTreeErr(c)
       \/ CheckCtx(c)
       \/ CreateChallengeSeed(c)
       \/ SendChallengeSeedErr(c)
       \/ CreateProof(c)
       \/ Select(c)
       \/ SelectCancelled(c)
       \/ ProofTaskSend(c)
       \/ ReceiveProof(c)
       \/ CreateTicket(c)
       \/ IsWinningTicket(c)
       \/ SendWinCheckErr(c)
       \/ Generate(c)
       \/ SendGenerated(c)

TicketIdle == tk = [pc |-> "idle"]

\* the chain helpers are not in use
ChainIdle ==
    /\ store = {}
    /\ storeHead = {}
    /\ lastCall = [fn |-> "none"]

\* the address encoding is not in use
AddrIdle == ad = [pc |-> "idle"]

AuxIdle == TicketIdle /\ ChainIdle /\ AddrIdle

\* Mine is about to be called and nothing else goes on
MineInit == Init /\ AuxIdle

Spec == MineInit /\ [][Next]_<<vars, auxVars>>

(* ------------------------ vocabulary of the claims --------------------- *)

Returned(c) == pc[c] = "done"

Invoked(c, f) == \E i \in 1..Len(trace[c]) : trace[c][i].op = f

Failed(c, f) ==
    \E i \in 1..Len(trace[c]) : trace[c][i].op = f /\ trace[c][i].err # Nil

Succeeded(c, f) ==
    \E i \in 1..Len(trace[c]) : trace[c][i].op = f /\ trace[c][i].err = Nil

\* IsWinningTicket returned (true, nil), respectively (false, nil)
WonElection(c) == Succeeded(c, "IsWinningTicket") /\ weHaveAWinner[c]
LostElection(c) == Succeeded(c, "IsWinningTicket") /\ ~weHaveAWinner[c]

\* the block Generate builds from the locals of call c
BlockOf(c) ==
    GeneratedBlock(base[c], ticket[c], proof[c], Uint64(nullBlkCount[c]))

(* ------------------------------ claims -------------------------------- *)

\* C1: during one call of Mine at most one Output is sent on the output
\* channel, whatever the base tipset, the collaborators' results and the
\* moment of cancellation.
C1_AtMostOneOutput == \A c \in Calls : Len(outCh[c]) <= 1

\* a call has returned after sending its one Output
C1_Witness == \E c \in Calls : Returned(c) /\ Len(outCh[c]) = 1

C4_EmptyTipSet ==
    \A c \in Calls :
       (pc[c] # "idle" /\ base[c] = {}) =>
          /\ trace[c] = <<>>
          /\ task[c] = "none"
          /\ pc[c] # "panicked"
          /\ Returned(c) =>
                /\ retVal[c] = FALSE
                /\ Len(outCh[c]) = 1
                /\ outCh[c][1].Err # Nil
                /\ outCh[c][1].NewBlock = NilBlock

\* a call on the empty tipset has returned
C4_Witness == \E c \in Calls : Returned(c) /\ base[c] = {}

Obs(c) == <<retVal[c], outCh[c]>>

\* the call ended because the election was lost (return of line 210)
EndedLost(c) == Returned(c) /\ LostElection(c)

\* the call ended because it was cancelled (returns of lines 166 and 181)
EndedCancelled(c) == Returned(c) /\ retLine[c] \in {166, 181}

\* the call failed: bad input, or a collaborator returned an error
EndedFailed(c) ==
    /\ Returned(c)
    /\ \/ base[c] = {}
       \/ \E i \in 1..Len(trace[c]) : trace[c][i].err # Nil

\* C6 as stated: a lost election, a cancellation and a failure give the
\* caller three pairwise different observations.
C6_Original ==
    \A c, d \in Calls :
       /\ (EndedLost(c) /\ EndedCancelled(d)) => Obs(c) # Obs(d)
       /\ (EndedLost(c) /\ EndedFailed(d)) => Obs(c) # Obs(d)
       /\ (EndedCancelled(c) /\ EndedFailed(d)) => Obs(c) # Obs(d)

\* C6 amended: a failed call is told apart from a lost election and from a
\* cancellation by its error Output; a lost election and a cancellation
\* give the caller the same observation, false and no Output.
C6_FailureDistinguishable ==
    \A c, d \in Calls :
       /\ (EndedLost(c) /\ EndedFailed(d)) => Obs(c) # Obs(d)
       /\ (EndedCancelled(c) /\ EndedFailed(d)) => Obs(c) # Obs(d)
       /\ (EndedLost(c) \/ EndedCancelled(c)) => Obs(c) = <<FALSE, <<>>>>
       /\ EndedFailed(c) => (Len(outCh[c]) = 1 /\ outCh[c][1].Err # Nil)

\* one call was cancelled in the select and the other failed in the win
\* check
C6_Witness ==
    \E c, d \in Calls :
       /\ EndedCancelled(c) /\ retLine[c] = 181
       /\ EndedFailed(d) /\ Failed(d, "IsWinningTicket")

C8_NotWinnerSilent ==
    \A c \in Calls :
       LostElection(c) =>
          /\ Returned(c)
          /\ retVal[c] = FALSE
          /\ outCh[c] = <<>>
          /\ ~Invoked(c, "Generate")

\* a call has lost the election
C8_Witness == \E c \in Calls : LostElection(c) /\ retLine[c] = 210

C10_WinCheckError ==
    \A c \in Calls :
       Failed(c, "IsWinningTicket") =>
          /\ pc[c] \in {"L196", "done"}
          /\ ~Invoked(c, "Generate")
          /\ Returned(c) =>
                /\ retVal[c] = FALSE
                /\ outCh[c] = <<NewOutput(NilBlock, ErrIsWinningTicket)>>

\* the win check failed with true in one call and with false in the other,
\* and both calls have returned
C10_Witness ==
    \E c, d \in Calls :
       /\ Returned(c) /\ Failed(c, "IsWinningTicket") /\ weHaveAWinner[c]
       /\ Returned(d) /\ Failed(d, "IsWinningTicket") /\ ~weHaveAWinner[d]

\* C11: when the signer returns an error during ticket creation the call
\* panics: it has sent no Output, it never returns a value, and it invokes
\* neither the win check nor Generate.
C11_SignerErrorPanics ==
    \A c \in Calls :
       Failed(c, "SignBytes") =>
          /\ pc[c] = "panicked"
          /\ outCh[c] = <<>>
          /\ retLine[c] = 0
          /\ ~Invoked(c, "IsWinningTicket")
          /\ ~Invoked(c, "Generate")

\* the signer has failed in a call
C11_Witness == \E c \in Calls : Failed(c, "SignBytes")

MineStep(c) ==
    \/ CheckBase(c)
    \/ SendEmptyTipSetErr(c)
    \/ GetStateTree(c)
    \/ SendStateTreeErr(c)
    \/ CheckCtx(c)
    \/ CreateChallengeSeed(c)
    \/ SendChallengeSeedErr(c)
    \/ CreateProof(c)
    \/ Select(c)
    \/ SelectCancelled(c)
    \/ ReceiveProof(c)
    \/ CreateTicket(c)
    \/ IsWinningTicket(c)
    \/ SendWinCheckErr(c)
    \/ Generate(c)
    \/ SendGenerated(c)

\* the call is running and cannot take a step until another party acts
Suspended(c) ==
    /\ pc[c] \notin {"idle", "done", "panicked"}
    /\ ~ENABLED MineStep(c)

\* the positions of the five sends on outCh
SendPcs == {"L152", "L159", "L171", "L196", "L206"}

\* C13 as stated: a Mine call is suspended only in the select of step 5.
C13_Original == \A c \in Calls : Suspended(c) => pc[c] = "parked"

\* C13 amended: a Mine call is suspended only in the select of step 5 or in
\* one of its sends on the output channel, where it waits until a receiver
\* takes the Output; at every other position it can take its next step.
C13_SuspensionPoints ==
    \A c \in Calls :
       /\ Suspended(c) => pc[c] \in {"parked"} \cup SendPcs
       /\ pc[c] \in SendPcs => (Suspended(c) <=> ~rcvReady[c])
       /\ pc[c] = "parked" => Suspended(c)

\* a winner is suspended in the send of its Output
C13_Witness == \E c \in Calls : Suspended(c) /\ pc[c] = "L206"

\* C14: no proof task stays blocked forever.  A proof task blocked in its
\* send on prCh can only be released by its Mine call receiving in the
\* select, so the claim requires that such a task always has its call still
\* ahead of, or in, the select.
C14_Original ==
    \A c \in Calls : task[c] = "sending" => pc[c] = "L178"

\* everything that belongs to call c: its arguments, context, locals, proof
\* task, output channel and result
CallState(c) ==
    <<pc[c], base[c], nullBlkCount[c], ctxDone[c], ctxAtEntry[c], err[c],
      challenge[c], task[c], prChRead[c], proof[c], ticket[c],
      weHaveAWinner[c], next[c], outCh[c], retVal[c], retLine[c], trace[c],
      rcvReady[c]>>

\* what the caller of c observes when c runs alone with the same base
\* tipset and the same collaborator results
SoloObs(c) ==
    IF base[c] = {}
      THEN <<FALSE, <<NewOutput(NilBlock, ErrEmptyTipSet)>>>>
    ELSE IF Failed(c, "getStateTree")
      THEN <<FALSE, <<NewOutput(NilBlock, ErrGetStateTree)>>>>
    ELSE IF Failed(c, "CreateChallengeSeed")
      THEN <<FALSE, <<NewOutput(NilBlock, ErrChallengeSeed)>>>>
    ELSE IF Failed(c, "IsWinningTicket")
      THEN <<FALSE, <<NewOutput(NilBlock, ErrIsWinningTicket)>>>>
    ELSE IF WonElection(c) /\ Succeeded(c, "Generate")
      THEN <<TRUE, <<NewOutput(<<BlockOf(c)>>, Nil)>>>>
    ELSE IF WonElection(c)
      THEN <<TRUE, <<NewOutput(NilBlock, ErrGenerate)>>>>
    ELSE <<FALSE, <<>>>>

\* C15: two concurrent Mine calls on one worker do not interfere: every
\* step changes the state of one call only (no call reads or writes the
\* other call's context, proof channel or output channel), the proof a
\* call receives is the seed of its own base tipset and null block count,
\* and what the caller of a returned call observes is determined by that
\* call's own arguments and collaborator results.  Both calls may win.
C15_CallsIndependent ==
    /\ [](\A c \in Calls :
            /\ prChRead[c] \in
                  {Unset, ChallengeSeed(base[c], nullBlkCount[c])}
            /\ Returned(c) => Obs(c) = SoloObs(c))
    /\ [][\E c \in Calls :
            \A d \in Calls \ {c} : CallState(d)' = CallState(d)]_vars

\* both calls have won on the same base tipset, and both have returned
C15_Witness ==
    \A c \in Calls :
       /\ Returned(c) /\ retVal[c] = TRUE /\ Len(outCh[c]) = 1
       /\ \A d \in Calls : base[d] = base[c]

(* ---------------------------- CreateTicket ---------------------------- *)

\* length of a proof in bytes (proofs.PoStProof is a fixed-size byte array)
ProofLen == 2

\* largest value of a byte
MaxByte == 2

\* number of addresses a ticket can be created for
NumAddrs == 3

Byte == 0..MaxByte

\* the values of a proofs.PoStProof
PoStProofs == [1..ProofLen -> Byte]

\* the addresses handed to CreateTicket, each a one-byte string here
Addresses == {<<a>> : a \in 1..NumAddrs}

\* Variant of TicketPayload: the miner address is appended to the proof
\* before signing.
TicketPayloadWithAddr(p, a) == p \o a

\* lines 228-229: buf := append(proof[:]); h := buf -- the bytes handed to
\* the signer are the bytes of the proof, nothing is appended.
TicketPayload(p, a) == p

\* lines 227-237: CreateTicket(proof, minerAddr, signer); the signer
\* succeeds or fails as the caller's signerOk says.
CreateTicketCall ==
    /\ tk.pc = "called"
    /\ IF tk.signerOk
         THEN tk' = [tk EXCEPT
                       !.pc = "returned",
                       !.ticket = Signature(TicketPayload(tk.proof, tk.addr),
                                            tk.addr)]
         ELSE tk' = [tk EXCEPT !.pc = "panicked"]
    /\ UNCHANGED <<vars, store, storeHead, lastCall, ad>>

\* a caller has called CreateTicket(proof, addr, signer); no Mine call is
\* under way
TicketInit ==
    /\ tk \in [pc : {"called"}, proof : PoStProofs, addr : Addresses,
               signerOk : BOOLEAN, ticket : {Unset}]
    /\ ChainIdle
    /\ AddrIdle
    /\ Init

TicketNext == CreateTicketCall

SpecTicket == TicketInit /\ [][TicketNext]_<<vars, auxVars>>

\* signature check: sig is addr's signature over exactly the bytes data
VerifySignature(sig, data, addr) == sig = Signature(data, addr)

\* C16: for every proof P and address A for which the signer succeeds,
\* CreateTicket returns the signer's signature under A over the bytes of P
\* and nothing else; the ticket verifies for (P, A) and for no other proof
\* and no other address.
C16_TicketSignsProof ==
    tk.pc = "returned" =>
       /\ tk.ticket = Signature(tk.proof, tk.addr)
       /\ \A p \in PoStProofs, a \in Addresses :
             VerifySignature(tk.ticket, p, a) <=>
                (p = tk.proof /\ a = tk.addr)

\* CreateTicket has returned a ticket
C16_Witness == tk.pc = "returned" /\ tk.signerOk

(***************************************************************************)
(* Chain test helpers, src/chain/testing.go: MkFakeChild,                  *)
(* MkFakeChildCore, AddChain, AddChainBinomBlocksPerEpoch.                 *)
(***************************************************************************)

\* longest chain a single call is asked to build
MaxLength == 3
\* largest number of miners drawn from in an epoch
MaxMiners == 2
\* largest nonce and null block count handed to MkFakeChildCore directly
MaxNonce == 1

ErrEmptyHeight == "height of an empty tipset"
ErrWeight == "weight function failed"
ErrBadTipSetAdd == "block does not match the tipset"
ErrNoMembers == "no blocks for tipset"
ErrNotFound == "tipset not in store"
ErrStoreWrite == "store write failed"

GenesisStateRoot == "genesisRoot"

\* the block fields MkFakeChildCore sets; every other field is zero
GenesisBlock ==
    [Parents |-> {}, Height |-> 0, ParentWeightNum |-> 0,
     ParentWeightDenom |-> 1, Nonce |-> 0, StateRoot |-> GenesisStateRoot]

\* a block that was never put into the store
ForeignBlock == [GenesisBlock EXCEPT !.StateRoot = "foreignRoot"]

\* content identifier: blocks with equal content have equal identifiers,
\* blocks with different content have different ones
Cid(blk) == blk

GenesisCid == Cid(GenesisBlock)

\* a tipset is the collection of its blocks keyed by identifier
ToSortedCidSet(ts) == {Cid(b) : b \in ts}

\* the string key of an identifier set
CidSetString(cids) == cids

\* ts.ToSlice()[0]: the canonical first block of a tipset
FirstBlock(ts) == CHOOSE b \in ts : TRUE

\* ts.Height()
TipSetHeight(ts) ==
    IF ts = {} THEN [height |-> 0, err |-> ErrEmptyHeight]
    ELSE [height |-> FirstBlock(ts).Height, err |-> Nil]

\* ts.AddBlock(blk)
AddBlock(ts, blk) ==
    IF ts = {} THEN [ts |-> {blk}, err |-> Nil]
    ELSE IF \/ blk.Height # FirstBlock(ts).Height
            \/ blk.Parents # FirstBlock(ts).Parents
            \/ blk.ParentWeightNum # FirstBlock(ts).ParentWeightNum
            \/ blk.ParentWeightDenom # FirstBlock(ts).ParentWeightDenom
         THEN [ts |-> ts, err |-> ErrBadTipSetAdd]
         ELSE [ts |-> ts \cup {blk}, err |-> Nil]

\* consensus.NewTipSet(blk) for one block
NewTipSet(blk) == AddBlock({}, blk)

\* con.Weight(ctx, ts, nil) under the test power view: the parent weight of
\* the tipset plus one increment per member block
Weight(ts) ==
    IF ts = {} THEN [num |-> 0, denom |-> 0, err |-> ErrWeight]
    ELSE [num |-> FirstBlock(ts).ParentWeightNum
                     + Cardinality(ts) * FirstBlock(ts).ParentWeightDenom,
          denom |-> FirstBlock(ts).ParentWeightDenom,
          err |-> Nil]

\* chain.GetTipSetAndState(ctx, id)
GetTipSetAndState(st, id) ==
    LET m == {t \in st : CidSetString(ToSortedCidSet(t.TipSet)) = id}
    IN IF m = {} THEN [tsas |-> Unset, err |-> ErrNotFound]
       ELSE [tsas |-> CHOOSE t \in m : TRUE, err |-> Nil]

\* chain.PutTipSetAndState(ctx, tsas): entries are keyed by tipset
PutTipSetAndState(st, tsas) ==
    {t \in st : t.TipSet # tsas.TipSet} \cup {tsas}

\* chain.SetHead(ctx, ts)
SetHead(h, ts) == ts

MkFakeChildCoreNoNulls(parent, genCid, stateRoot, nonce, nullBlockCount, w) ==
    IF w.err # Nil THEN [blk |-> NilBlock, err |-> w.err]
    ELSE IF TipSetHeight(parent).err # Nil
         THEN [blk |-> NilBlock, err |-> TipSetHeight(parent).err]
         ELSE [blk |-> <<[Parents |-> ToSortedCidSet(parent),
                          Height |-> Uint64(TipSetHeight(parent).height + 1),
                          ParentWeightNum |-> w.num,
                          ParentWeightDenom |-> w.denom,
                          Nonce |-> nonce,
                          StateRoot |-> IF stateRoot = Nil
                                        THEN FirstBlock(parent).StateRoot
                                        ELSE stateRoot]>>,
               err |-> Nil]

\* w is what wFun(parent) returned
MkFakeChildCore(parent, genCid, stateRoot, nonce, nullBlockCount, w) ==
    IF w.err # Nil THEN [blk |-> NilBlock, err |-> w.err]
    ELSE IF TipSetHeight(parent).err # Nil
         THEN [blk |-> NilBlock, err |-> TipSetHeight(parent).err]
         ELSE [blk |-> <<[Parents |-> ToSortedCidSet(parent),
                          Height |-> Uint64(TipSetHeight(parent).height + 1
                                            + nullBlockCount),
                          ParentWeightNum |-> w.num,
                          ParentWeightDenom |-> w.denom,
                          Nonce |-> nonce,
                          StateRoot |-> IF stateRoot = Nil
                                        THEN FirstBlock(parent).StateRoot
                                        ELSE stateRoot]>>,
               err |-> Nil]

\* the weight function is the consensus weight of the parent
MkFakeChildWithCon(parent, genCid, stateRoot, nonce, nullBlockCount) ==
    MkFakeChildCore(parent, genCid, stateRoot, nonce, nullBlockCount,
                    Weight(parent))

MkFakeChild(parent, genCid, stateRoot, nonce, nullBlockCount) ==
    MkFakeChildWithCon(parent, genCid, stateRoot, nonce, nullBlockCount)

AddChainNullBlockCountOne == Uint64(1)

\* the null block count AddChain passes for every block
AddChainNullBlockCount == Uint64(0)

\* one iteration of AddChain's loop and the iterations after it; fail is
\* the number of the store write that fails, 0 for none
RECURSIVE AddChainLoop(_, _, _, _, _)
AddChainLoop(i, l, stateRoot, fail, s) ==
    IF i >= l THEN s
    ELSE
      LET r == MkFakeChild(s.ts, GenesisCid, stateRoot, i,
                           AddChainNullBlockCount)
      IN IF r.err # Nil THEN [s EXCEPT !.blk = NilBlock, !.err = r.err]
         ELSE
           LET nt == NewTipSet(r.blk[1])
               put == PutTipSetAndState(s.store,
                         [TipSet |-> nt.ts, TipSetStateRoot |-> stateRoot])
           IN IF nt.err # Nil
              THEN [s EXCEPT !.blk = NilBlock, !.err = nt.err]
              ELSE IF fail = s.ops + 1
              THEN [s EXCEPT !.blk = NilBlock, !.err = ErrStoreWrite]
              ELSE IF fail = s.ops + 2
              THEN [s EXCEPT !.blk = NilBlock, !.err = ErrStoreWrite,
                             !.store = put]
              ELSE AddChainLoop(i + 1, l, stateRoot, fail,
                      [s EXCEPT !.ts = nt.ts, !.blk = r.blk,
                                !.store = put,
                                !.head = SetHead(s.head, nt.ts),
                                !.ops = s.ops + 2,
                                !.built = Append(@, r.blk[1])])

\* AddChain(ctx, chain, start, length): the returned block and error, and
\* the store it leaves
AddChain(st, h, start, length, fail) ==
    LET g == GetTipSetAndState(st, CidSetString(ToSortedCidSet(start)))
    IN IF g.err # Nil
       THEN [blk |-> NilBlock, err |-> g.err, store |-> st, head |-> h,
             built |-> <<>>]
       ELSE LET s == AddChainLoop(0, Uint64(length),
                        g.tsas.TipSetStateRoot, fail,
                        [ts |-> g.tsas.TipSet, blk |-> NilBlock,
                         err |-> Nil, store |-> st, head |-> h, ops |-> 0,
                         built |-> <<>>])
            IN [blk |-> s.blk, err |-> s.err, store |-> s.store,
                head |-> s.head, built |-> s.built]

\* getWinningMinerCount(n, p): the number of the n draws that fall below p
getWinningMinerCount(n) == 0..n

\* the nonce given to block j of epoch i
EpochBlockNonce(i, j) == i

\* the inner loop of an epoch: the blocks of the epoch are added to head
RECURSIVE BuildEpoch(_, _, _, _, _, _, _)
BuildEpoch(j, nBlks, ts, stateRoot, i, lastNull, e) ==
    IF j >= nBlks THEN e
    ELSE
      LET r == MkFakeChild(ts, GenesisCid, stateRoot, EpochBlockNonce(i, j),
                           lastNull)
      IN IF r.err # Nil THEN [e EXCEPT !.err = r.err]
         ELSE LET a == AddBlock(e.head, r.blk[1])
              IN IF a.err # Nil THEN [e EXCEPT !.err = a.err]
                 ELSE BuildEpoch(j + 1, nBlks, ts, stateRoot, i, lastNull,
                         [e EXCEPT !.head = a.ts,
                                   !.made = Append(@, r.blk[1])])

\* lines 356-358: if nBlks == 0 { lastNull += uint64(1) }
LastNullForEpoch(nBlks, lastNull) ==
    IF nBlks = 0 THEN Uint64(lastNull + 1) ELSE lastNull

\* Variant of LastNullAfterEpoch: the null block count is never reset.
LastNullAfterEpochKept(nBlks, lastNull) == lastNull

\* lines 372-373: if nBlks > 0 { lastNull = 0
LastNullAfterEpoch(nBlks, lastNull) ==
    IF nBlks > 0 THEN Uint64(0) ELSE lastNull

\* epoch i of AddChainBinomBlocksPerEpoch and the epochs after it;
\* draws[i + 1] is what getWinningMinerCount returns in epoch i
RECURSIVE BinomLoop(_, _, _, _, _, _)
BinomLoop(i, l, draws, stateRoot, fail, s) ==
    IF i >= l THEN s
    ELSE
      LET nBlks == draws[i + 1]
          ln == LastNullForEpoch(nBlks, s.lastNull)
          e == BuildEpoch(0, nBlks, s.ts, stateRoot, i, ln,
                          [head |-> {}, err |-> Nil, made |-> <<>>])
          put == PutTipSetAndState(s.store,
                    [TipSet |-> e.head, TipSetStateRoot |-> stateRoot])
          ep == [epoch |-> i, nBlks |-> nBlks, lastNull |-> ln,
                 base |-> s.ts, made |-> e.made, head |-> e.head]
      IN IF e.err # Nil THEN [s EXCEPT !.head = {}, !.err = e.err]
         ELSE IF nBlks > 0
         THEN IF fail = s.ops + 1
              THEN [s EXCEPT !.head = {}, !.err = ErrStoreWrite]
              ELSE IF fail = s.ops + 2
              THEN [s EXCEPT !.head = {}, !.err = ErrStoreWrite,
                             !.store = put]
              ELSE BinomLoop(i + 1, l, draws, stateRoot, fail,
                      [s EXCEPT !.head = e.head,
                                !.lastNull = LastNullAfterEpoch(nBlks, ln),
                                !.ts = e.head, !.store = put,
                                !.storeHead = SetHead(s.storeHead, e.head),
                                !.ops = s.ops + 2,
                                !.epochs = Append(@, ep)])
         ELSE BinomLoop(i + 1, l, draws, stateRoot, fail,
                 [s EXCEPT !.head = e.head,
                           !.lastNull = LastNullAfterEpoch(nBlks, ln),
                           !.epochs = Append(@, ep)])

\* AddChainBinomBlocksPerEpoch(ctx, chain, start, numMiners, length): the
\* returned tipset and error, and the store it leaves
AddChainBinomBlocksPerEpoch(st, h, start, draws, length, fail) ==
    LET g == GetTipSetAndState(st, CidSetString(ToSortedCidSet(start)))
    IN IF g.err # Nil
       THEN [head |-> {}, err |-> g.err, store |-> st, storeHead |-> h,
             epochs |-> <<>>]
       ELSE LET s == BinomLoop(0, Uint64(length), draws,
                        g.tsas.TipSetStateRoot, fail,
                        [ts |-> g.tsas.TipSet, head |-> {}, lastNull |-> 0,
                         err |-> Nil, store |-> st, storeHead |-> h,
                         ops |-> 0, epochs |-> <<>>])
            IN [head |-> s.head, err |-> s.err, store |-> s.store,
                storeHead |-> s.storeHead, epochs |-> s.epochs]

\* the start arguments a test passes: a tipset of the store, or blocks the
\* store has never seen
StartChoices == {t.TipSet : t \in store} \cup {{ForeignBlock}}

\* parents handed to MkFakeChildCore directly: no block, one block, two
\* blocks, and a tipset above the genesis
ParentChoices ==
    {{}, {GenesisBlock}, {GenesisBlock, ForeignBlock},
     {MkFakeChild({GenesisBlock}, GenesisCid, Nil, 0, 1).blk[1]}}

\* what a weight function may return for a parent
WeightResults(parent) ==
    {Weight(parent), [num |-> 3, denom |-> 2, err |-> Nil],
     [num |-> 0, denom |-> 0, err |-> ErrWeight]}

\* which store write of a call fails: none, the first PutTipSetAndState,
\* the first SetHead
FailPoints == {0, 1, 2}

\* a test calls AddChain
AddChainCall ==
    /\ lastCall.fn = "none"
    /\ \E start \in StartChoices, length \in 0..MaxLength,
          fail \in FailPoints :
         LET r == AddChain(store, storeHead, start, length, fail)
         IN /\ store' = r.store
            /\ storeHead' = r.head
            /\ lastCall' =
                  [fn |-> "AddChain", start |-> start, length |-> length,
                   preStore |-> store, preHead |-> storeHead,
                   blk |-> r.blk, err |-> r.err, built |-> r.built]
    /\ UNCHANGED <<vars, tk, ad>>

\* a test calls AddChainBinomBlocksPerEpoch
AddChainBinomBlocksPerEpochCall ==
    /\ lastCall.fn = "none"
    /\ \E start \in StartChoices, numMiners \in 1..MaxMiners,
          length \in 0..MaxLength, fail \in FailPoints :
         \E draws \in [1..length -> getWinningMinerCount(numMiners)] :
            LET r == AddChainBinomBlocksPerEpoch(store, storeHead, start,
                                                 draws, length, fail)
            IN /\ store' = r.store
               /\ storeHead' = r.storeHead
               /\ lastCall' =
                     [fn |-> "AddChainBinomBlocksPerEpoch",
                      start |-> start, numMiners |-> numMiners,
                      length |-> length, draws |-> draws,
                      preStore |-> store, preHead |-> storeHead,
                      head |-> r.head, err |-> r.err,
                      epochs |-> r.epochs]
    /\ UNCHANGED <<vars, tk, ad>>

\* the store of a fresh test: the genesis tipset, which is its head
GenesisStore ==
    {[TipSet |-> {GenesisBlock}, TipSetStateRoot |-> GenesisStateRoot]}

\* the stores a test has prepared before the call under study: the fresh
\* store, or the fresh store after AddChain built a chain on the genesis
PreparedStores ==
    {[store |-> GenesisStore, head |-> {GenesisBlock}]}
       \cup {[store |-> AddChain(GenesisStore, {GenesisBlock},
                                 {GenesisBlock}, k, 0).store,
               head |-> AddChain(GenesisStore, {GenesisBlock},
                                {GenesisBlock}, k, 0).head] :
                k \in 1..MaxLength}

\* a test has prepared the store and is about to call a helper; no Mine
\* call and no CreateTicket call is under way
ChainInit ==
    /\ \E p \in PreparedStores : store = p.store /\ storeHead = p.head
    /\ lastCall = [fn |-> "none"]
    /\ TicketIdle
    /\ AddrIdle
    /\ Init

ChainNext ==
    \/ AddChainCall
    \/ AddChainBinomBlocksPerEpochCall

SpecChain == ChainInit /\ [][ChainNext]_<<vars, auxVars>>

\* a test calls MkFakeChildCore(parent, genCid, stateRoot, nonce,
\* nullBlockCount, wFun)
MkFakeChildCoreCall ==
    /\ lastCall.fn = "MkFakeChildCore"
    /\ lastCall.pc = "called"
    /\ lastCall' =
          [lastCall EXCEPT
             !.pc = "returned",
             !.ret = MkFakeChildCore(lastCall.parent, GenesisCid,
                                     lastCall.stateRoot, lastCall.nonce,
                                     lastCall.nullBlockCount, lastCall.w)]
    /\ UNCHANGED <<vars, tk, store, storeHead, ad>>

\* the arguments of a call of MkFakeChildCore; w is what its weight
\* function returns for the parent
FakeChildInit ==
    /\ \E parent \in ParentChoices, stateRoot \in {Nil, GenesisStateRoot},
          nonce \in 0..MaxNonce, nullBlockCount \in 0..MaxNonce :
         \E w \in WeightResults(parent) :
            lastCall = [fn |-> "MkFakeChildCore", pc |-> "called",
                        parent |-> parent, stateRoot |-> stateRoot,
                        nonce |-> nonce, nullBlockCount |-> nullBlockCount,
                        w |-> w, ret |-> Unset]
    /\ store = {}
    /\ storeHead = {}
    /\ TicketIdle
    /\ AddrIdle
    /\ Init

FakeChildNext == MkFakeChildCoreCall

SpecFakeChild == FakeChildInit /\ [][FakeChildNext]_<<vars, auxVars>>

\* C17: for every non-empty parent tipset and null block count for which
\* the weight function and parent.Height succeed, the block built by
\* MkFakeChildCore has height = parent height + 1 + nullBlockCount, parents
\* equal to the parent's sorted identifier set, and parent weight equal to
\* the weight function's result.
C17_ChildOfParent ==
    (/\ lastCall.fn = "MkFakeChildCore"
     /\ lastCall.pc = "returned"
     /\ lastCall.parent # {}
     /\ lastCall.w.err = Nil
     /\ TipSetHeight(lastCall.parent).err = Nil)
    => /\ lastCall.ret.err = Nil
       /\ Len(lastCall.ret.blk) = 1
       /\ lastCall.ret.blk[1].Height =
             TipSetHeight(lastCall.parent).height + 1
             + lastCall.nullBlockCount
       /\ lastCall.ret.blk[1].Parents = ToSortedCidSet(lastCall.parent)
       /\ lastCall.ret.blk[1].ParentWeightNum = lastCall.w.num
       /\ lastCall.ret.blk[1].ParentWeightDenom = lastCall.w.denom

\* MkFakeChildCore built a child of a two-block parent over a null block
C17_Witness ==
    /\ lastCall.fn = "MkFakeChildCore"
    /\ lastCall.pc = "returned"
    /\ Cardinality(lastCall.parent) = 2
    /\ lastCall.nullBlockCount > 0
    /\ lastCall.w.err = Nil
    /\ lastCall.ret.err = Nil

\* the store st has an entry for the tipset made of the blocks start
InStore(st, start) ==
    GetTipSetAndState(st, CidSetString(ToSortedCidSet(start))).err = Nil

\* the store entry of a tipset built above the genesis
EntryOf(ts) ==
    [TipSet |-> ts, TipSetStateRoot |-> GenesisStateRoot]

\* the blocks AddChain built form a chain above start, each one null-free
\* step above its parent
IsChainAbove(start, built) ==
    \A i \in 1..Len(built) :
       LET parent == IF i = 1 THEN start ELSE {built[i - 1]}
       IN /\ built[i].Parents = ToSortedCidSet(parent)
          /\ built[i].Height = TipSetHeight(parent).height + 1

\* AddChain(start, length) ran with start in the store, length >= 1 and no
\* failing store operation
AddChainRan ==
    /\ lastCall.fn = "AddChain"
    /\ lastCall.length >= 1
    /\ InStore(lastCall.preStore, lastCall.start)
    /\ lastCall.err # ErrStoreWrite

\* what C18 says of a call apart from the number of new tipsets
AddChainOutcome ==
    /\ lastCall.err = Nil
    /\ Len(lastCall.built) = lastCall.length
    /\ IsChainAbove(lastCall.start, lastCall.built)
    /\ store = lastCall.preStore
                  \cup {EntryOf({lastCall.built[i]}) :
                           i \in 1..Len(lastCall.built)}
    /\ storeHead = {lastCall.built[Len(lastCall.built)]}
    /\ lastCall.blk = <<lastCall.built[Len(lastCall.built)]>>

\* AddChain was called with a start tipset the store does not hold
AddChainUnknownStart ==
    /\ lastCall.fn = "AddChain"
    /\ ~InStore(lastCall.preStore, lastCall.start)

AddChainRejected ==
    /\ lastCall.err # Nil
    /\ lastCall.blk = NilBlock
    /\ store = lastCall.preStore
    /\ storeHead = lastCall.preHead

\* C18 as stated: when the start tipset is in the store and no store
\* operation fails, AddChain(start, length) with length >= 1 adds exactly
\* length new single-block tipsets to the store, the i-th a child of the
\* (i-1)-th with height one more than its parent's; the head is the tipset
\* of the last added block, which is the block returned. When the start
\* tipset is not in the store, AddChain returns an error and leaves the
\* store and its head unchanged.
C18_Original ==
    /\ AddChainRan =>
          /\ AddChainOutcome
          /\ Cardinality(store \ lastCall.preStore) = lastCall.length
    /\ AddChainUnknownStart => AddChainRejected

\* C18, amended: AddChain puts length single-block tipsets into the store,
\* chained as stated, sets the head to the last and returns its block; the
\* tipsets are new only as far as the store did not hold them already, so
\* the store grows by at most length entries, and by exactly length when
\* none of the built tipsets was in it before the call.
C18_AddChain ==
    /\ AddChainRan =>
          /\ AddChainOutcome
          /\ Cardinality(store \ lastCall.preStore) <= lastCall.length
          /\ (\A i \in 1..Len(lastCall.built) :
                 EntryOf({lastCall.built[i]}) \notin lastCall.preStore)
             => Cardinality(store \ lastCall.preStore) = lastCall.length
    /\ AddChainUnknownStart => AddChainRejected

\* AddChain built a chain of two blocks that the store held already
C18_Witness ==
    /\ AddChainRan
    /\ lastCall.err = Nil
    /\ Len(lastCall.built) > 1
    /\ Cardinality(store \ lastCall.preStore) < lastCall.length

\* AddChain was called with a start tipset unknown to the store
C18_WitnessUnknownStart == AddChainUnknownStart /\ lastCall.err = ErrNotFound

\* the epochs of the last AddChainBinomBlocksPerEpoch call that drew
\* winners and stored their tipset
StoredEpochs ==
    IF lastCall.fn = "AddChainBinomBlocksPerEpoch"
    THEN {lastCall.epochs[i] : i \in 1..Len(lastCall.epochs)}
    ELSE {}

\* C19: in AddChainBinomBlocksPerEpoch, for every epoch in which the number
\* of winning miners drawn is n > 0, the tipset stored for that epoch
\* contains exactly n distinct blocks, all sharing the same parent set,
\* height and parent weight.
C19_Original ==
    \A ep \in StoredEpochs :
       ep.nBlks > 0 =>
          /\ EntryOf(ep.head) \in store
          /\ Cardinality(ep.head) = ep.nBlks
          /\ \A a, b \in ep.head :
                /\ a.Parents = b.Parents
                /\ a.Height = b.Height
                /\ a.ParentWeightNum = b.ParentWeightNum
                /\ a.ParentWeightDenom = b.ParentWeightDenom

(***************************************************************************)
(* Address text encoding, src/chain/testing.go (package address):          *)
(* newAddress, encode, decode.  Strings are sequences of characters and    *)
(* byte slices are sequences of bytes.  The sizes are scaled down: a byte  *)
(* holds 2 bits and a character of the base encoding 1 bit (8 and 5 in the *)
(* program), so a byte is written as 2 characters and a trailing           *)
(* incomplete group of characters decodes to nothing.                      *)
(***************************************************************************)

Mainnet == 0
Testnet == 1
MainnetPrefix == <<"f">>
TestnetPrefix == <<"t">>

ID == 0
SECP256K1 == 1
Actor == 2
BLS == 3

\* number of values of a byte
ByteRange == 4
\* number of characters of the base encoding's alphabet
CharRange == 2
\* length of the hash that is the payload of SECP256K1 and Actor addresses
PayloadHashLength == 1
\* the literal payload length decode requires of SECP256K1 and Actor
DecodePayloadLength == 1
\* bls.PublicKeyBytes
BLSPublicKeyBytes == 2
\* length of the checksum at the end of the encoded payload
ChecksumHashLength == 2
\* two characters of prefix and the encoding of a BLS key with checksum
MaxAddressStringLength == 10
\* largest unsigned integer
MaxUint64 == 15
\* longest tail of an arbitrary input string, after the two prefix
\* characters
MaxRawLen == 3
\* longest byte sequence whose encoding is an input string
MaxEncodedBytes == 5

EmptyAddressString == <<"<", "e", "m", "p", "t", "y", ">">>

ErrUnknownNetwork == "unknown network"
ErrUnknownProtocol == "unknown protocol"
ErrInvalidPayload == "invalid payload"
ErrInvalidLength == "invalid length"
ErrInvalidChecksum == "invalid checksum"
ErrCorruptInput == "illegal base32 data"

\* the undefined address Address{}
Undef == <<>>

\* a.Protocol(), a.Payload() of an address with bytes a
Protocol(a) == a[1]
Payload(a) == Tail(a)

AddrBytes == 0..(ByteRange - 1)

\* strconv and fmt: decimal digits
Digits == <<"0", "1", "2", "3", "4", "5", "6", "7", "8", "9">>

DigitValue(c) == (CHOOSE i \in 1..Len(Digits) : Digits[i] = c) - 1

IsDigit(c) == \E i \in 1..Len(Digits) : Digits[i] = c

\* fmt.Sprintf("%d", n)
RECURSIVE FormatUint(_)
FormatUint(n) ==
    IF n < Len(Digits) THEN <<Digits[n + 1]>>
    ELSE FormatUint(n \div Len(Digits)) \o <<Digits[(n % Len(Digits)) + 1]>>

RECURSIVE DecimalValue(_)
DecimalValue(s) ==
    IF s = <<>> THEN 0
    ELSE DecimalValue(SubSeq(s, 1, Len(s) - 1)) * Len(Digits)
            + DigitValue(s[Len(s)])

\* strconv.ParseUint(raw, 10, 64)
ParseUint(s) ==
    IF s = <<>> \/ \E i \in 1..Len(s) : ~IsDigit(s[i])
    THEN [val |-> 0, err |-> "invalid syntax"]
    ELSE IF Len(s) > MaxRawLen \/ DecimalValue(s) > MaxUint64
         THEN [val |-> MaxUint64, err |-> "value out of range"]
         ELSE [val |-> DecimalValue(s), err |-> Nil]

\* leb128.FromUInt64: the low bits first, the top bit of a byte set when
\* more bytes follow
RECURSIVE FromUInt64(_)
FromUInt64(n) ==
    IF n < ByteRange \div 2 THEN <<n>>
    ELSE <<(ByteRange \div 2) + (n % (ByteRange \div 2))>>
            \o FromUInt64(n \div (ByteRange \div 2))

\* leb128.ToUInt64
RECURSIVE ToUInt64(_)
ToUInt64(b) ==
    IF b = <<>> THEN 0
    ELSE IF b[1] >= ByteRange \div 2
         THEN (b[1] - (ByteRange \div 2))
                 + (ByteRange \div 2) * ToUInt64(Tail(b))
         ELSE b[1]

\* the alphabet of AddressEncoding
BaseChars == <<"a", "b">>

IsBaseChar(c) == \E i \in 1..Len(BaseChars) : BaseChars[i] = c

BaseValue(c) == (CHOOSE i \in 1..Len(BaseChars) : BaseChars[i] = c) - 1

\* AddressEncoding.WithPadding(-1).EncodeToString(bytes)
RECURSIVE EncodeToString(_)
EncodeToString(bytes) ==
    IF bytes = <<>> THEN <<>>
    ELSE <<BaseChars[(bytes[1] \div CharRange) + 1],
           BaseChars[(bytes[1] % CharRange) + 1]>>
            \o EncodeToString(Tail(bytes))

\* AddressEncoding.WithPadding(-1).DecodeString(raw): complete groups of
\* characters give a byte each, an incomplete last group gives none
DecodeString(raw) ==
    IF \E i \in 1..Len(raw) : ~IsBaseChar(raw[i])
    THEN [bytes |-> <<>>, err |-> ErrCorruptInput]
    ELSE [bytes |-> [i \in 1..(Len(raw) \div 2) |->
                       BaseValue(raw[2 * i - 1]) * CharRange
                          + BaseValue(raw[2 * i])],
          err |-> Nil]

RECURSIVE SumBytes(_)
SumBytes(b) == IF b = <<>> THEN 0 ELSE b[1] + SumBytes(Tail(b))

RECURSIVE WeightedSum(_)
WeightedSum(b) ==
    IF b = <<>> THEN 0 ELSE Len(b) * b[Len(b)]
                              + WeightedSum(SubSeq(b, 1, Len(b) - 1))

\* Checksum(ingest): a hash of ChecksumHashLength bytes
Checksum(ingest) ==
    <<SumBytes(ingest) % ByteRange,
      (WeightedSum(ingest) + Len(ingest)) % ByteRange>>

ValidateChecksum(ingest, expect) == Checksum(ingest) = expect

newAddress(protocol, payload) ==
    IF protocol = ID
    THEN [addr |-> <<protocol>> \o payload, err |-> Nil]
    ELSE IF protocol \in {SECP256K1, Actor}
    THEN IF Len(payload) # PayloadHashLength
         THEN [addr |-> Undef, err |-> ErrInvalidPayload]
         ELSE [addr |-> <<protocol>> \o payload, err |-> Nil]
    ELSE IF protocol = BLS
    THEN IF Len(payload) # BLSPublicKeyBytes
         THEN [addr |-> Undef, err |-> ErrInvalidPayload]
         ELSE [addr |-> <<protocol>> \o payload, err |-> Nil]
    ELSE [addr |-> Undef, err |-> ErrUnknownProtocol]

NewIDAddress(id) == newAddress(ID, FromUInt64(id))

encode(network, addr) ==
    IF addr = Undef THEN [str |-> EmptyAddressString, err |-> Nil]
    ELSE IF network \notin {Mainnet, Testnet}
    THEN [str |-> EmptyAddressString, err |-> ErrUnknownNetwork]
    ELSE
      LET ntwk == IF network = Mainnet THEN MainnetPrefix
                  ELSE TestnetPrefix
      IN IF Protocol(addr) \in {SECP256K1, Actor, BLS}
         THEN [str |-> ntwk \o FormatUint(Protocol(addr))
                          \o EncodeToString(
                                Payload(addr)
                                   \o Checksum(<<Protocol(addr)>>
                                                  \o Payload(addr))),
               err |-> Nil]
         ELSE IF Protocol(addr) = ID
         THEN [str |-> ntwk \o FormatUint(Protocol(addr))
                          \o FormatUint(ToUInt64(Payload(addr))),
               err |-> Nil]
         ELSE [str |-> EmptyAddressString, err |-> ErrUnknownProtocol]

\* a return of decode
DecodeReturn(a, e) == [addr |-> a, err |-> e, fault |-> FALSE]

\* decode stopped by a run-time panic
DecodeFault == [addr |-> Undef, err |-> Nil, fault |-> TRUE]

\* the part of decode after the base decoding of raw succeeded: slicing
\* payloadcksm below its start is a run-time panic
DecodePayload(protocol, payloadcksm) ==
    IF Len(payloadcksm) - ChecksumHashLength < 0
    THEN DecodeFault
    ELSE
      LET payload == SubSeq(payloadcksm, 1,
                            Len(payloadcksm) - ChecksumHashLength)
          cksm == SubSeq(payloadcksm,
                         Len(payloadcksm) - ChecksumHashLength + 1,
                         Len(payloadcksm))
      IN IF protocol \in {SECP256K1, Actor}
            /\ Len(payload) # DecodePayloadLength
         THEN DecodeReturn(Undef, ErrInvalidPayload)
         ELSE IF ~ValidateChecksum(<<protocol>> \o payload, cksm)
         THEN DecodeReturn(Undef, ErrInvalidChecksum)
         ELSE DecodeReturn(newAddress(protocol, payload).addr,
                           newAddress(protocol, payload).err)

decode(a) ==
    IF Len(a) = 0 THEN DecodeReturn(Undef, Nil)
    ELSE IF a = EmptyAddressString THEN DecodeReturn(Undef, Nil)
    ELSE IF Len(a) > MaxAddressStringLength \/ Len(a) < 3
    THEN DecodeReturn(Undef, ErrInvalidLength)
    ELSE IF <<a[1]>> # MainnetPrefix /\ <<a[1]>> # TestnetPrefix
    THEN DecodeReturn(Undef, ErrUnknownNetwork)
    ELSE IF a[2] \notin {"0", "1", "2", "3"}
    THEN DecodeReturn(Undef, ErrUnknownProtocol)
    ELSE
      LET protocol == DigitValue(a[2])
          raw == SubSeq(a, 3, Len(a))
      IN IF protocol = ID
         THEN IF ParseUint(raw).err # Nil
              THEN DecodeReturn(Undef, ErrInvalidPayload)
              ELSE DecodeReturn(
                      newAddress(protocol,
                                 FromUInt64(ParseUint(raw).val)).addr,
                      newAddress(protocol,
                                 FromUInt64(ParseUint(raw).val)).err)
         ELSE IF DecodeString(raw).err # Nil
              THEN DecodeReturn(Undef, DecodeString(raw).err)
              ELSE DecodePayload(protocol, DecodeString(raw).bytes)

\* sequences over S of length 0..n
SeqsUpTo(S, n) == UNION {[1..k -> S] : k \in 0..n}

\* the addresses the constructors build
WellFormedAddresses ==
    {NewIDAddress(id).addr : id \in 0..MaxUint64}
       \cup {newAddress(p, h).addr :
                p \in {SECP256K1, Actor},
                h \in [1..PayloadHashLength -> AddrBytes]}
       \cup {newAddress(BLS, k).addr :
                k \in [1..BLSPublicKeyBytes -> AddrBytes]}

\* input strings of decode: short strings, a network and a protocol
\* character followed by arbitrary characters, and a network and a
\* protocol character followed by the encoding of arbitrary bytes
InputStrings ==
    {<<>>, EmptyAddressString, <<"f">>, <<"f", "1">>}
       \cup {<<n, p>> \o raw :
                n \in {"f", "t", "x"}, p \in {"0", "1", "2", "3", "4"},
                raw \in SeqsUpTo({"a", "b", "0", "1", "7"}, MaxRawLen)}
       \cup {<<n, p>> \o EncodeToString(b) :
                n \in {"f", "t"}, p \in {"1", "2", "3"},
                b \in SeqsUpTo(AddrBytes, MaxEncodedBytes)}

\* encode(network, addr) is called and returns
EncodeCall ==
    /\ ad.pc = "encode"
    /\ LET r == encode(ad.network, ad.addr)
       IN ad' = [ad EXCEPT !.str = r.str, !.encErr = r.err,
                           !.pc = IF r.err = Nil THEN "decode"
                                  ELSE "returned"]
    /\ UNCHANGED <<vars, tk, store, storeHead, lastCall>>

\* decode(a) is called and returns or panics
DecodeCall ==
    /\ ad.pc = "decode"
    /\ LET r == decode(ad.str)
       IN ad' = [ad EXCEPT !.res = r,
                           !.pc = IF r.fault THEN "panicked"
                                  ELSE "returned"]
    /\ UNCHANGED <<vars, tk, store, storeHead, lastCall>>

\* either an address is about to be encoded and decoded again, or a string
\* is about to be decoded; nothing else goes on
AddrInit ==
    /\ ad \in [kind : {"roundtrip"}, pc : {"encode"},
               network : {Mainnet, Testnet, Testnet + 1},
               addr : WellFormedAddresses \cup {Undef}, str : {Unset},
               encErr : {Nil}, res : {Unset}]
          \cup [kind : {"decode"}, pc : {"decode"}, network : {Nil},
                addr : {Unset}, str : InputStrings, encErr : {Nil},
                res : {Unset}]
    /\ TicketIdle
    /\ ChainIdle
    /\ Init

AddrNext == EncodeCall \/ DecodeCall

SpecAddr == AddrInit /\ [][AddrNext]_<<vars, auxVars>>

\* the bytes that the tail of the string a encodes
EmbeddedBytes(a) == DecodeString(SubSeq(a, 3, Len(a))).bytes

\* a is a network character, a protocol character of a hashed or key
\* protocol, and the encoding of a payload of the protocol's length
\* followed by a checksum
HasEmbeddedChecksum(a) ==
    /\ Len(a) >= 3
    /\ Len(a) <= MaxAddressStringLength
    /\ <<a[1]>> \in {MainnetPrefix, TestnetPrefix}
    /\ a[2] \in {"1", "2", "3"}
    /\ DecodeString(SubSeq(a, 3, Len(a))).err = Nil
    /\ Len(EmbeddedBytes(a)) >= ChecksumHashLength
    /\ a[2] \in {"1", "2"} =>
          Len(EmbeddedBytes(a)) = PayloadHashLength + ChecksumHashLength

\* the checksum embedded in a is not the checksum of a's protocol byte and
\* payload
ChecksumMismatch(a) ==
    /\ HasEmbeddedChecksum(a)
    /\ LET b == EmbeddedBytes(a)
           n == Len(b) - ChecksumHashLength
       IN SubSeq(b, n + 1, Len(b))
             # Checksum(<<DigitValue(a[2])>> \o SubSeq(b, 1, n))

\* C20: address string encoding round-trips and decoding is total: for
\* every well-formed address a of protocol ID, SECP256K1, Actor or BLS,
\* decode(encode(network, a)) returns a with no error for both the mainnet
\* and the testnet prefix; and for every input string decode returns either
\* an address or an error value without faulting, returning
\* ErrInvalidChecksum whenever the embedded checksum does not match the
\* protocol byte and payload.
C20_Original ==
    /\ (/\ ad.kind = "roundtrip"
        /\ ad.pc \in {"returned", "panicked"}
        /\ ad.addr \in WellFormedAddresses
        /\ ad.network \in {Mainnet, Testnet})
       => /\ ad.pc = "returned"
          /\ ad.encErr = Nil
          /\ ad.res = DecodeReturn(ad.addr, Nil)
    /\ ad.pc # "panicked"
    /\ (/\ ad.pc = "returned"
        /\ ad.res # Unset
        /\ ChecksumMismatch(ad.str))
       => ad.res.err = ErrInvalidChecksum


(* --------------------- Mine: order of the collaborators ---------------- *)

\* the collaborators of Mine in the order of lines 156, 169, 174, 188, 192, 201
CollaboratorOrder ==
    <<"getStateTree", "CreateChallengeSeed", "createProof", "SignBytes",
      "IsWinningTicket", "Generate">>

\* C21: within one Mine call the collaborators are invoked in the order
\* state accessor, challenge seed derivation, proof task launch, signer,
\* win check, Generate; each at most once and each only after the previous
\* one returned without error.  Generate is invoked only after the win
\* check returned true, and it is handed the base tipset of the call, the
\* ticket that was handed to the win check, the proof that was signed and
\* the null block count of the call.
C21_CollaboratorOrder ==
    \A c \in Calls :
        LET t == trace[c] IN
        /\ Len(t) <= Len(CollaboratorOrder)
        /\ \A i \in 1..Len(t) : t[i].op = CollaboratorOrder[i]
        /\ \A i \in 1..(Len(t) - 1) : t[i].err = Nil
        /\ Invoked(c, "Generate") =>
              /\ WonElection(c)
              /\ t[6].args = <<base[c], t[5].args[1], t[4].args[1],
                               Uint64(nullBlkCount[c])>>
              /\ t[6].args[1] = t[1].args[1]
              /\ t[6].args[4] = t[2].args[2]

\* a call with a null block count above zero has invoked Generate
C21_Witness ==
    \E c \in Calls :
        /\ Invoked(c, "Generate")
        /\ Len(trace[c]) = 6
        /\ nullBlkCount[c] > 0
        /\ Returned(c)


(* ------------------------ Mine: the proof value ------------------------ *)

\* the proof of call c when the proof task passes the seed through: the
\* challenge seed of (base, nullBlkCount) in the leading bytes, the rest zero
SeedProof(c) == CopyProof(ChallengeSeed(base[c], Uint64(nullBlkCount[c])))

\* the Mine call has received a value from its proof task
Delivered(c) == prChRead[c] # Unset

\* the proof handed to the signer and to Generate is the challenge seed of
\* the same call; a value is received from the proof task only after the
\* proof work function has returned, and before anything is signed
ProofIsSeed ==
    \A c \in Calls :
        /\ \A i \in 1..Len(trace[c]) :
              /\ trace[c][i].op = "SignBytes"
                    => trace[c][i].args[1] = SeedProof(c)
              /\ trace[c][i].op = "Generate"
                    => trace[c][i].args[3] = SeedProof(c)
        /\ ticket[c] # Unset => ticket[c] = Signature(SeedProof(c), minerAddr)
        /\ Delivered(c) =>
              /\ prChRead[c] = ChallengeSeed(base[c], Uint64(nullBlkCount[c]))
              /\ task[c] = "done"
        /\ Invoked(c, "SignBytes") => Delivered(c)

Fairness == \A c \in Calls : WF_<<vars, auxVars>>(MineStep(c))

SpecFair == MineInit /\ [][Next]_<<vars, auxVars>> /\ Fairness

\* every collaborator call of c returns: CreateTicket (line 188) does not
\* panic
CollaboratorsReturn(c) == []<>(pc[c] # "panicked")

\* the receiver of outCh eventually accepts every send of c: c does not
\* stay in a send without a receiver for ever
ReceiverAccepts(c) == []<>(pc[c] \notin SendPcs \/ rcvReady[c])

\* the proof work function of c eventually returns, or the context of c is
\* eventually cancelled
ProofReturnsOrCancelled(c) == []<>(task[c] # "working" \/ ctxDone[c])

\* the Mine call c has been entered and has not returned
Running(c) == pc[c] \notin {"idle", "done"}

\* C23: under fair scheduling, if every collaborator call returns, the
\* receiver of the output channel eventually accepts every send, and the
\* proof work function eventually returns or the context is eventually
\* cancelled, then every Mine call eventually returns: no call stays
\* running for ever (a call is entered once and a returned call stays
\* returned, so this is: every call that is entered returns).
C23_MineReturns ==
    \A c \in Calls :
        (CollaboratorsReturn(c) /\ ReceiverAccepts(c)
            /\ ProofReturnsOrCancelled(c))
          => []<>(~Running(c))

\* a call has returned on cancellation while its proof work function was
\* still running, and another call has returned after sending its block
C23_Witness ==
    \E c, d \in Calls :
        /\ Returned(c)
        /\ retLine[c] = 181
        /\ task[c] = "working"
        /\ Returned(d)
        /\ Succeeded(d, "Generate")
        /\ Len(outCh[d]) = 1


(* -------------- AddChainBinomBlocksPerEpoch: heights, head ------------- *)

\* the epochs the last call of AddChainBinomBlocksPerEpoch went through
BinomEpochs ==
    IF lastCall.fn = "AddChainBinomBlocksPerEpoch" THEN lastCall.epochs
    ELSE <<>>

\* the number of consecutive epochs without a block immediately before
\* the k-th epoch of eps
EmptyEpochsBefore(eps, k) ==
    CHOOSE n \in 0..(k - 1) :
        /\ \A m \in (k - n)..(k - 1) : eps[m].nBlks = 0
        /\ k - n > 1 => eps[k - n - 1].nBlks > 0

\* C24: in AddChainBinomBlocksPerEpoch every block built in epoch i
\* (counted from 0) has height = height of start + i + 1; the null block
\* count an epoch builds its blocks with is the number of consecutive
\* epochs without a block immediately before it, and the count is back
\* at 0 after each epoch that built a block.
C24_EpochHeights ==
    \A k \in 1..Len(BinomEpochs) :
        LET ep == BinomEpochs[k] IN
        /\ ep.epoch = k - 1
        /\ Len(ep.made) = ep.nBlks
        /\ \A j \in 1..Len(ep.made) :
              ep.made[j].Height
                 = TipSetHeight(lastCall.start).height + ep.epoch + 1
        /\ ep.nBlks > 0 => ep.lastNull = EmptyEpochsBefore(BinomEpochs, k)
        /\ (k > 1 /\ BinomEpochs[k - 1].nBlks > 0) =>
              ep.lastNull = (IF ep.nBlks = 0 THEN 1 ELSE 0)

\* a call went through an epoch without a block and then through two
\* epochs with blocks, the last of them with two blocks
C24_Witness ==
    /\ Len(BinomEpochs) = 3
    /\ lastCall.err = Nil
    /\ BinomEpochs[1].nBlks = 0
    /\ BinomEpochs[2].nBlks > 0
    /\ BinomEpochs[3].nBlks = 2
    /\ TipSetHeight(lastCall.start).height > 0

=============================================================================
